---- MODULE Spec2Model ----
(***************************************************************************)
(* Inventory allocation engine of the Bublinka ERP: stock units, manual    *)
(* and order-allocation guillotine cuts, and the order status machine with *)
(* its reserve / consume / release side effects.                           *)
(*                                                                         *)
(* Quantities (recipe quantity, reservedQuantity) are floats in the code.  *)
(* They are kept here in fixed point, as multiples of 1/One, which is      *)
(* exact for the halves the model enumerates.  Stock units are kept in a   *)
(* sequence in creation order, so a unit's index is both its id and its    *)
(* rank in `orderBy: { createdAt: 'asc' }`.                                *)
(*                                                                         *)
(* Requests are served one at a time: a handler runs as one step from the  *)
(* idle state and leaves its request and response in `call`; Return hands  *)
(* the response back and makes the server idle again.  `lastReserve` is a  *)
(* history variable: the order and the units of the latest committed       *)
(* DRAFT -> IN_PROGRESS reservation, while no later request has committed. *)
(*                                                                         *)
(* SpecRace serves two requests concurrently instead: each handler is      *)
(* split where the code splits it, into the read it makes before its       *)
(* transaction and the checks and transaction that follow.  `pending`      *)
(* holds the two requests; it is empty in the other specifications.        *)
(*                                                                         *)
(* SpecBoards runs the source-board query on stocks of mixed sizes,        *)
(* SpecOrders adds createOrder and updateOrder to the status machine, and  *)
(* SpecLedger runs the status machine alone with the history variable      *)
(* `ledger` kept: what each order's own transitions reserved and consumed. *)
(***************************************************************************)
EXTENDS Integers, Sequences, FiniteSets, TLC

\* ---------------------------------------------------------------- bounds
MaxUnits == 4
MaxAddQuantity == 2

\* ------------------------------------------------------- program constants
\* the float 1 of `Math.min(1, remainingQty)` and of `reservedQuantity: 1`
One == 2
MIN_OFFCUT_DIMENSION_MM == 10

InventoryStatus == {"AVAILABLE", "CONSUMED", "REMNANT"}
OrderStatus == {"DRAFT", "IN_PROGRESS", "COMPLETED", "CANCELLED"}
NoDef == 0
NoParent == 0

Min(a, b) == IF a <= b THEN a ELSE b
Max(a, b) == IF a >= b THEN a ELSE b
\* Math.ceil of a fixed-point quantity, as a whole number
Ceil(q) == (q + One - 1) \div One

\* ------------------------------------------------------------------ names
\* A display name is a base name under `rem` "Zbytek z " prefixes and `cut`
\* " (Cut)" suffixes.
BaseName(b) == [base |-> b, rem |-> 0, cut |-> 0]
generateRemnantName(originalName) == [originalName EXCEPT !.rem = @ + 1]
TargetName(sourceName) == [sourceName EXCEPT !.cut = @ + 1]

\* ------------------------------------------------------------ input spaces
\* what a bulk add may create: catalog definition 1 is named "Ply"
AddChoices == { [def |-> 1, name |-> "Ply"] }
AddSizes == { <<30, 20>> }
Thicknesses == {18}
Directions == {"horizontal", "vertical"}
\* manual cuts of a 30 x 20 board: inside, whole, along one full side, and
\* beyond the board in width or in height
CutWidths == {15, 30, 40}
CutHeights == {10, 20, 30}
CutRequests ==
  [cutWidth : CutWidths, cutHeight : CutHeights, direction : Directions,
   saveMainRemnant : BOOLEAN, saveSecondaryRemnant : BOOLEAN]
\* allocation cuts: offcuts above, at and below the minimum offcut dimension
TargetWidths == {15, 20, 30, 40}
TargetHeights == {5, 20, 30}
OrderCutRequests ==
  [targetWidth : TargetWidths, targetHeight : TargetHeights, quantity : {1, 2}]
\* the cut requests of the specification of the whole system
FewCutRequests ==
  { [cutWidth |-> 30, cutHeight |-> 20, direction |-> "horizontal",
     saveMainRemnant |-> TRUE, saveSecondaryRemnant |-> TRUE],
    [cutWidth |-> 15, cutHeight |-> 20, direction |-> "horizontal",
     saveMainRemnant |-> TRUE, saveSecondaryRemnant |-> FALSE],
    [cutWidth |-> 15, cutHeight |-> 30, direction |-> "horizontal",
     saveMainRemnant |-> FALSE, saveSecondaryRemnant |-> TRUE],
    [cutWidth |-> 40, cutHeight |-> 20, direction |-> "horizontal",
     saveMainRemnant |-> FALSE, saveSecondaryRemnant |-> FALSE] }
FewOrderCutRequests ==
  { [targetWidth |-> 15, targetHeight |-> 20, quantity |-> 1],
    [targetWidth |-> 40, targetHeight |-> 20, quantity |-> 2] }

NewUnit(name, def, w, h, thickness, status, reserved, parent) ==
  [name |-> name, def |-> def, width |-> w, height |-> h,
   thickness |-> thickness, status |-> status, reserved |-> reserved,
   parent |-> parent]

\* ----------------------------------------------------- products and orders
\* Product recipes (ProductIngredient rows: inventoryItemId, quantity).  The
\* referenced stock units are the two units present initially.
Products ==
  [ P1 |-> << [inventoryItemId |-> 1, quantity |-> One] >>,
    P2 |-> << [inventoryItemId |-> 1, quantity |-> One + One \div 2],
              [inventoryItemId |-> 2, quantity |-> One \div 2] >> ]

\* the order lines (OrderItem rows: product, quantity) an order may have
OrderLines ==
  { << [product |-> "P1", quantity |-> 1], [product |-> "P1", quantity |-> 1] >>,
    << [product |-> "P2", quantity |-> 1] >> }

OrderIds == {1, 2}
\* ids a request may carry: the existing orders and one that does not exist
RequestOrderIds == OrderIds \cup {3}

VARIABLES inv, orders, call, lastReserve, pending, ledger
vars == <<inv, orders, call, lastReserve, pending, ledger>>

UnitIds == 1..Len(inv)
\* ids a cut request may carry: every id up to the bound, existing or not
RequestUnitIds == 1..Min(Len(inv) + 1, MaxUnits)

NoReserve == [order |-> 0, units |-> {}, covered |-> FALSE]

\* no requests run concurrently
NoPending == <<>>

\* `ledger` is a history variable: for each order, the units its latest
\* move to IN_PROGRESS reserved (until the order releases) and the units its
\* completions have consumed.  It is kept only where a specification opens
\* it; the program stores no such record.
NoLedger == [kept |-> FALSE, reserved |-> <<>>, consumed |-> <<>>]

\* the ledger after an accepted transition of order id has updated `touched`
Recorded(l, id, currentStatus, newStatus, touched) ==
  IF ~l.kept THEN l
  ELSE IF currentStatus \in {"DRAFT", "COMPLETED"} /\ newStatus = "IN_PROGRESS"
    THEN [l EXCEPT !.reserved[id] = touched]
  ELSE IF currentStatus = "IN_PROGRESS" /\ newStatus = "COMPLETED"
    THEN [l EXCEPT !.consumed[id] = @ \cup touched]
  ELSE IF currentStatus = "IN_PROGRESS" /\ newStatus \in {"DRAFT", "CANCELLED"}
    THEN [l EXCEPT !.reserved[id] = {}]
  ELSE l

Idle == call.op = "none"

NoOp == [op |-> "none", ok |-> TRUE, err |-> "", id |-> 0, from |-> "", to |-> "",
         a |-> <<>>, warned |-> {}, touched |-> {}]

\* ------------------------------------------------ requirement aggregation
\* orders.ts 432-440: Map<inventoryItemId, quantity>, in insertion order
RECURSIVE AddRequirement(_, _, _)
AddRequirement(reqs, id, qty) ==
  IF reqs = <<>> THEN << <<id, qty>> >>
  ELSE IF Head(reqs)[1] = id THEN << <<id, Head(reqs)[2] + qty>> >> \o Tail(reqs)
  ELSE << Head(reqs) >> \o AddRequirement(Tail(reqs), id, qty)

RECURSIVE AddIngredients(_, _, _)
AddIngredients(reqs, ingredients, itemQuantity) ==
  IF ingredients = <<>> THEN reqs
  ELSE AddIngredients(
         AddRequirement(reqs, Head(ingredients).inventoryItemId,
                        Head(ingredients).quantity * itemQuantity),
         Tail(ingredients), itemQuantity)

RECURSIVE AddItems(_, _)
AddItems(reqs, items) ==
  IF items = <<>> THEN reqs
  ELSE AddItems(AddIngredients(reqs, Products[Head(items).product], Head(items).quantity),
                Tail(items))

inventoryRequirements(items) == AddItems(<<>>, items)

\* ------------------------------------------------------- unit selection
\* the ids of `units` in ascending order (orderBy: { createdAt: 'asc' })
IdsByCreatedAt(units) == [i \in 1..Len(units) |-> i]

Take(s, n) == SubSeq(s, 1, Min(n, Len(s)))

\* findMany({name, status: AVAILABLE, reservedQuantity: 0}, createdAt asc, take)
availableItems(units, name, requiredQty) ==
  Take(SelectSeq(IdsByCreatedAt(units),
                 LAMBDA i : /\ units[i].name = name
                            /\ units[i].status = "AVAILABLE"
                            /\ units[i].reserved = 0),
       Ceil(requiredQty))

\* a selection for consumption or release that ignores reservedQuantity
reservedItemsOfAnyReservation(units, name, requiredQty) ==
  Take(SelectSeq(IdsByCreatedAt(units), LAMBDA i : units[i].name = name),
       Ceil(requiredQty))

\* findMany({name, reservedQuantity > 0}, createdAt asc, take)
reservedItems(units, name, requiredQty) ==
  Take(SelectSeq(IdsByCreatedAt(units),
                 LAMBDA i : units[i].name = name /\ units[i].reserved > 0),
       Ceil(requiredQty))

\* ------------------------------------------------------------ the loops
\* Each loop returns [units, remaining, touched]: the inventory after the
\* updates, the uncovered quantity and the ids it has updated.
RECURSIVE ReserveLoop(_, _, _, _)
ReserveLoop(units, items, remainingQty, touched) ==
  IF items = <<>> \/ remainingQty <= 0
  THEN [units |-> units, remaining |-> remainingQty, touched |-> touched]
  ELSE LET item == Head(items)
           reserveAmount == Min(One, remainingQty)
       IN ReserveLoop([units EXCEPT ![item].reserved = reserveAmount],
                      Tail(items), remainingQty - reserveAmount, touched \cup {item})

\* a consumption that marks the units CONSUMED and leaves their reservation
RECURSIVE ConsumeLoopKeepsReservation(_, _, _, _)
ConsumeLoopKeepsReservation(units, items, remainingQty, touched) ==
  IF items = <<>> \/ remainingQty <= 0
  THEN [units |-> units, remaining |-> remainingQty, touched |-> touched]
  ELSE LET item == Head(items)
           consumeAmount == Min(units[item].reserved, remainingQty)
       IN ConsumeLoopKeepsReservation([units EXCEPT ![item].status = "CONSUMED"],
                      Tail(items), remainingQty - consumeAmount, touched \cup {item})

RECURSIVE ConsumeLoop(_, _, _, _)
ConsumeLoop(units, items, remainingQty, touched) ==
  IF items = <<>> \/ remainingQty <= 0
  THEN [units |-> units, remaining |-> remainingQty, touched |-> touched]
  ELSE LET item == Head(items)
           consumeAmount == Min(units[item].reserved, remainingQty)
       IN ConsumeLoop([units EXCEPT ![item].reserved = 0, ![item].status = "CONSUMED"],
                      Tail(items), remainingQty - consumeAmount, touched \cup {item})

\* a release that stops after the first selected unit
ReleaseLoopFirstUnitOnly(units, items, remainingQty, touched) ==
  IF items = <<>> \/ remainingQty <= 0
  THEN [units |-> units, remaining |-> remainingQty, touched |-> touched]
  ELSE LET item == Head(items)
           releaseAmount == Min(units[item].reserved, remainingQty)
       IN [units |-> [units EXCEPT ![item].reserved = Max(0, @ - releaseAmount)],
           remaining |-> remainingQty - releaseAmount, touched |-> touched \cup {item}]

\* a release that clears the reservation of every selected unit
RECURSIVE ReleaseLoopClearsAll(_, _, _, _)
ReleaseLoopClearsAll(units, items, remainingQty, touched) ==
  IF items = <<>>
  THEN [units |-> units, remaining |-> remainingQty, touched |-> touched]
  ELSE LET item == Head(items)
       IN ReleaseLoopClearsAll([units EXCEPT ![item].reserved = 0],
                               Tail(items), remainingQty - units[item].reserved,
                               touched \cup {item})

RECURSIVE ReleaseLoop(_, _, _, _)
ReleaseLoop(units, items, remainingQty, touched) ==
  IF items = <<>> \/ remainingQty <= 0
  THEN [units |-> units, remaining |-> remainingQty, touched |-> touched]
  ELSE LET item == Head(items)
           releaseAmount == Min(units[item].reserved, remainingQty)
       IN ReleaseLoop([units EXCEPT ![item].reserved = Max(0, @ - releaseAmount)],
                      Tail(items), remainingQty - releaseAmount, touched \cup {item})

\* ------------------------------------------------- transition side effects
\* The branches return [units, warned, touched]; `warned` is the set of
\* names the console.warn of the reserve branch was written for.
RECURSIVE ReserveBranch(_, _, _, _, _)
ReserveBranch(units, reqs, warns, warned, touched) ==
  IF reqs = <<>> THEN [units |-> units, warned |-> warned, touched |-> touched]
  ELSE LET inventoryItemId == Head(reqs)[1]
           requiredQty == Head(reqs)[2]
       IN IF inventoryItemId > Len(units)
          THEN ReserveBranch(units, Tail(reqs), warns, warned, touched)
          ELSE LET name == units[inventoryItemId].name
                   r == ReserveLoop(units, availableItems(units, name, requiredQty),
                                    requiredQty, touched)
               IN ReserveBranch(r.units, Tail(reqs), warns,
                                IF warns /\ r.remaining > 0 THEN warned \cup {name} ELSE warned,
                                r.touched)

RECURSIVE ConsumeBranch(_, _, _)
ConsumeBranch(units, reqs, touched) ==
  IF reqs = <<>> THEN [units |-> units, warned |-> {}, touched |-> touched]
  ELSE LET inventoryItemId == Head(reqs)[1]
           requiredQty == Head(reqs)[2]
       IN IF inventoryItemId > Len(units)
          THEN ConsumeBranch(units, Tail(reqs), touched)
          ELSE LET name == units[inventoryItemId].name
                   r == ConsumeLoop(units, reservedItems(units, name, requiredQty),
                                    requiredQty, touched)
               IN ConsumeBranch(r.units, Tail(reqs), r.touched)

RECURSIVE ReleaseBranch(_, _, _)
ReleaseBranch(units, reqs, touched) ==
  IF reqs = <<>> THEN [units |-> units, warned |-> {}, touched |-> touched]
  ELSE LET inventoryItemId == Head(reqs)[1]
           requiredQty == Head(reqs)[2]
       IN IF inventoryItemId > Len(units)
          THEN ReleaseBranch(units, Tail(reqs), touched)
          ELSE LET name == units[inventoryItemId].name
                   r == ReleaseLoop(units, reservedItems(units, name, requiredQty),
                                    requiredQty, touched)
               IN ReleaseBranch(r.units, Tail(reqs), r.touched)

\* a cancellation that releases reservations whatever the current status
SideEffectReleaseOnCancel(units, reqs, currentStatus, newStatus) ==
  IF currentStatus = "DRAFT" /\ newStatus = "IN_PROGRESS"
    THEN ReserveBranch(units, reqs, TRUE, {}, {})
  ELSE IF currentStatus = "IN_PROGRESS" /\ newStatus = "COMPLETED"
    THEN ConsumeBranch(units, reqs, {})
  ELSE IF newStatus = "CANCELLED" \/ (currentStatus = "IN_PROGRESS" /\ newStatus = "DRAFT")
    THEN ReleaseBranch(units, reqs, {})
  ELSE IF currentStatus = "COMPLETED" /\ newStatus = "IN_PROGRESS"
    THEN ReserveBranch(units, reqs, FALSE, {}, {})
  ELSE [units |-> units, warned |-> {}, touched |-> {}]

\* orders.ts 443-582: the if / else-if chain over (currentStatus, newStatus)
SideEffect(units, reqs, currentStatus, newStatus) ==
  IF currentStatus = "DRAFT" /\ newStatus = "IN_PROGRESS"
    THEN ReserveBranch(units, reqs, TRUE, {}, {})
  ELSE IF currentStatus = "IN_PROGRESS" /\ newStatus = "COMPLETED"
    THEN ConsumeBranch(units, reqs, {})
  ELSE IF currentStatus = "IN_PROGRESS" /\ newStatus \in {"DRAFT", "CANCELLED"}
    THEN ReleaseBranch(units, reqs, {})
  ELSE IF currentStatus = "COMPLETED" /\ newStatus = "IN_PROGRESS"
    THEN ReserveBranch(units, reqs, FALSE, {}, {})
  ELSE [units |-> units, warned |-> {}, touched |-> {}]

\* ---------------------------------------------------- transition validation
\* the table without the reopening of a completed order
allowedTransitionsNoReopen ==
  [ DRAFT       |-> {"IN_PROGRESS", "CANCELLED"},
    IN_PROGRESS |-> {"COMPLETED", "DRAFT", "CANCELLED"},
    COMPLETED   |-> {"CANCELLED"},
    CANCELLED   |-> {"DRAFT"} ]

allowedTransitions ==
  [ DRAFT       |-> {"IN_PROGRESS", "CANCELLED"},
    IN_PROGRESS |-> {"COMPLETED", "DRAFT", "CANCELLED"},
    COMPLETED   |-> {"CANCELLED", "IN_PROGRESS"},
    CANCELLED   |-> {"DRAFT"} ]

TransitionAllowed(currentStatus, newStatus) ==
  \/ newStatus = "CANCELLED"
  \/ newStatus \in allowedTransitions[currentStatus]

\* a transition that does not take effect while a requirement is under-covered
WrittenStatusIfCovered(currentStatus, newStatus, effect) ==
  IF effect.warned # {} THEN currentStatus ELSE newStatus

\* orders.ts 585-588: the status the transaction writes
WrittenStatus(currentStatus, newStatus, effect) == newStatus

\* ------------------------------------------------- material availability
\* The availability check of an order's material requirements.  A
\* requirement group is [itemDefinitionId, sized, width, height,
\* quantityRequired]: `sized` for sheet material with a required width and
\* height, quantityRequired in units of 1/One like every quantity.
\* AVAILABLE units of the definition with exactly the required size
exactCount(units, req) ==
  Len(SelectSeq(units, LAMBDA u : /\ u.status = "AVAILABLE"
                                  /\ u.def = req.itemDefinitionId
                                  /\ u.width = req.width /\ u.height = req.height))

\* AVAILABLE units of the definition that cover the required size, not exact
largerCount(units, req) ==
  Len(SelectSeq(units, LAMBDA u : /\ u.status = "AVAILABLE"
                                  /\ u.def = req.itemDefinitionId
                                  /\ u.width >= req.width /\ u.height >= req.height
                                  /\ ~(u.width = req.width /\ u.height = req.height)))

\* AVAILABLE units of the definition, of any size
availableCount(units, req) ==
  Len(SelectSeq(units, LAMBDA u : u.status = "AVAILABLE" /\ u.def = req.itemDefinitionId))

\* a classification that offers a cut only when no exact unit exists at all
MaterialStatusCutOnlyWithoutExact(units, req) ==
  IF req.sized
  THEN (IF exactCount(units, req) * One >= req.quantityRequired THEN "ready"
        ELSE IF exactCount(units, req) = 0 /\ largerCount(units, req) > 0 THEN "cut_needed"
        ELSE "missing")
  ELSE (IF availableCount(units, req) * One >= req.quantityRequired THEN "ready"
        ELSE "missing")

\* the status of one requirement group: ready, cut_needed or missing
MaterialStatus(units, req) ==
  IF req.sized
  THEN (IF exactCount(units, req) * One >= req.quantityRequired THEN "ready"
        ELSE IF exactCount(units, req) + largerCount(units, req) > 0 THEN "cut_needed"
        ELSE "missing")
  ELSE (IF availableCount(units, req) * One >= req.quantityRequired THEN "ready"
        ELSE "missing")

\* the requirement group a recipe line belongs to: the catalog definition
\* and the size of the stock item the line refers to
requirementKey(units, inventoryItemId) ==
  [itemDefinitionId |-> units[inventoryItemId].def,
   width |-> units[inventoryItemId].width, height |-> units[inventoryItemId].height]

\* the quantity the recipe lines of one group require in total
RECURSIVE requiredOfKey(_, _, _)
requiredOfKey(units, reqs, key) ==
  IF reqs = <<>> THEN 0
  ELSE (IF requirementKey(units, Head(reqs)[1]) = key THEN Head(reqs)[2] ELSE 0)
       + requiredOfKey(units, Tail(reqs), key)

\* the requirement groups of an order's lines; a recipe line without a
\* catalog definition contributes none
materialRequirements(units, items) ==
  LET reqs == SelectSeq(inventoryRequirements(items),
                        LAMBDA r : r[1] <= Len(units) /\ units[r[1]].def # NoDef)
  IN { [itemDefinitionId |-> key.itemDefinitionId, sized |-> TRUE,
        width |-> key.width, height |-> key.height,
        quantityRequired |-> requiredOfKey(units, reqs, key)] :
       key \in { requirementKey(units, reqs[i][1]) : i \in DOMAIN reqs } }

\* ------------------------------------------------------------------ actions
Init ==
  /\ \E second \in {"Ply", "Leg"} :
       inv = << NewUnit(BaseName("Ply"), 1, 30, 20, 18, "AVAILABLE", 0, NoParent),
                NewUnit(BaseName(second), IF second = "Ply" THEN 1 ELSE NoDef, 30, 20, 18,
                        "AVAILABLE", 0, NoParent) >>
  /\ \E items \in OrderLines :
       orders = [o \in OrderIds |->
                   [status |-> "DRAFT",
                    items |-> IF o = 1 THEN items
                              ELSE << [product |-> "P1", quantity |-> 1] >>]]
  /\ call = NoOp
  /\ lastReserve = NoReserve
  /\ pending = NoPending
  /\ ledger = NoLedger

\* addInventoryItem: `quantity` identical AVAILABLE units in one transaction
AddInventoryItem(choice, size, thickness, quantity) ==
  /\ Idle
  /\ Len(inv) + quantity <= MaxUnits
  /\ inv' = inv \o [k \in 1..quantity |->
                      NewUnit(BaseName(choice.name), choice.def, size[1], size[2],
                              thickness, "AVAILABLE", 0, NoParent)]
  /\ orders' = orders
  /\ call' = [NoOp EXCEPT !.op = "add", !.a = <<choice, size, quantity>>]
  /\ lastReserve' = NoReserve
  /\ pending' = pending
  /\ ledger' = ledger

\* a handler's early return: the error is reported and nothing is written
Rejected(request, error) ==
  /\ call' = [request EXCEPT !.ok = FALSE, !.err = error]
  /\ UNCHANGED <<inv, orders, lastReserve, pending, ledger>>

StatusRequest(id, from, newStatus) ==
  [NoOp EXCEPT !.op = "status", !.id = id, !.from = from, !.to = newStatus]

\* the transition validated only after the transaction has run
UpdateOrderStatusLateCheck(id, newStatus) ==
  /\ Idle
  /\ IF id \notin DOMAIN orders
     THEN Rejected(StatusRequest(id, "", newStatus), "Objednavka nenalezena")
     ELSE LET currentStatus == orders[id].status
              effect == SideEffect(inv, inventoryRequirements(orders[id].items),
                                   currentStatus, newStatus)
          IN /\ inv' = effect.units
             /\ orders' = [orders EXCEPT ![id].status = newStatus]
             /\ call' = [StatusRequest(id, currentStatus, newStatus) EXCEPT
                           !.ok = TransitionAllowed(currentStatus, newStatus),
                           !.err = IF TransitionAllowed(currentStatus, newStatus)
                                   THEN "" ELSE "Nelze zmenit status",
                           !.warned = effect.warned, !.touched = effect.touched]
             /\ lastReserve' = NoReserve
             /\ pending' = pending
             /\ ledger' = Recorded(ledger, id, currentStatus, newStatus, effect.touched)

UpdateOrderStatus(id, newStatus) ==
  /\ Idle
  /\ IF id \notin DOMAIN orders
     THEN Rejected(StatusRequest(id, "", newStatus), "Objednavka nenalezena")
     ELSE LET currentStatus == orders[id].status IN
       IF ~TransitionAllowed(currentStatus, newStatus)
       THEN Rejected(StatusRequest(id, currentStatus, newStatus), "Nelze zmenit status")
       ELSE LET effect == SideEffect(inv, inventoryRequirements(orders[id].items),
                                     currentStatus, newStatus)
            IN /\ inv' = effect.units
               /\ orders' = [orders EXCEPT
                               ![id].status = WrittenStatus(currentStatus, newStatus, effect)]
               /\ call' = [StatusRequest(id, currentStatus, newStatus) EXCEPT
                             !.warned = effect.warned, !.touched = effect.touched]
               /\ lastReserve' = IF currentStatus = "DRAFT" /\ newStatus = "IN_PROGRESS"
                                 THEN [order |-> id, units |-> effect.touched,
                                       covered |-> effect.warned = {}]
                                 ELSE NoReserve
               /\ pending' = pending
               /\ ledger' = Recorded(ledger, id, currentStatus, newStatus, effect.touched)

\* ------------------------------------------------------------- manual cut
\* the height of the cut compared with the width of the board
MatchesWholeWidthTwice(cutWidth, cutHeight, item) ==
  cutWidth = item.width /\ cutHeight = item.width

\* part_001 181-183
MatchesWhole(cutWidth, cutHeight, item) ==
  cutWidth = item.width /\ cutHeight = item.height

\* part_001 212-219 and 236-243: the per-direction validation; the error it
\* returns, or "" when the cut passes
CutValidation(cutWidth, cutHeight, direction, item) ==
  IF direction = "horizontal"
  THEN (IF cutWidth > item.width THEN "Sirka rezu nesmi byt vetsi nez sirka puvodni polozky"
        ELSE "")
  ELSE (IF cutHeight > item.height THEN "Vyska rezu nesmi byt vetsi nez vyska puvodni polozky"
        ELSE "")

\* part_001 222-226 and 246-250; a remnant is a sequence of zero or one size
mainRemnant(cutWidth, cutHeight, direction, item) ==
  IF direction = "horizontal"
  THEN << [width |-> item.width - cutWidth, height |-> item.height] >>
  ELSE << [width |-> item.width, height |-> item.height - cutHeight] >>

\* a secondary remnant computed whether or not the cut leaves one
secondaryRemnantAlways(cutWidth, cutHeight, direction, item) ==
  IF direction = "horizontal"
  THEN << [width |-> cutWidth, height |-> item.height - cutHeight] >>
  ELSE << [width |-> item.width - cutWidth, height |-> cutHeight] >>

\* part_001 229-235 and 253-259
secondaryRemnant(cutWidth, cutHeight, direction, item) ==
  IF direction = "horizontal"
  THEN (IF cutHeight < item.height
        THEN << [width |-> cutWidth, height |-> item.height - cutHeight] >>
        ELSE <<>>)
  ELSE (IF cutWidth < item.width
        THEN << [width |-> item.width - cutWidth, height |-> cutHeight] >>
        ELSE <<>>)

\* remnants stored without their source as parent
CutChildrenNoParent(id, item, main, secondary, saveMainRemnant, saveSecondaryRemnant) ==
  LET remnantName == generateRemnantName(item.name)
      Child(r) == NewUnit(remnantName, item.def, r.width, r.height, item.thickness,
                         "REMNANT", 0, NoParent)
  IN (IF saveMainRemnant /\ main # <<>> THEN << Child(main[1]) >> ELSE <<>>)
     \o (IF saveSecondaryRemnant /\ secondary # <<>> THEN << Child(secondary[1]) >> ELSE <<>>)

\* part_001 279-318: the units the transaction creates, in creation order
CutChildren(id, item, main, secondary, saveMainRemnant, saveSecondaryRemnant) ==
  LET remnantName == generateRemnantName(item.name)
      Child(r) == NewUnit(remnantName, item.def, r.width, r.height, item.thickness,
                         "REMNANT", 0, id)
  IN (IF saveMainRemnant /\ main # <<>> THEN << Child(main[1]) >> ELSE <<>>)
     \o (IF saveSecondaryRemnant /\ secondary # <<>> THEN << Child(secondary[1]) >> ELSE <<>>)

CutRequest(id, cutWidth, cutHeight, direction, saveMainRemnant, saveSecondaryRemnant) ==
  [NoOp EXCEPT !.op = "cut", !.id = id,
               !.a = [cutWidth |-> cutWidth, cutHeight |-> cutHeight, direction |-> direction,
                      saveMainRemnant |-> saveMainRemnant,
                      saveSecondaryRemnant |-> saveSecondaryRemnant]]

CutInventoryItem(id, cutWidth, cutHeight, direction, saveMainRemnant, saveSecondaryRemnant) ==
  LET request == CutRequest(id, cutWidth, cutHeight, direction,
                            saveMainRemnant, saveSecondaryRemnant)
  IN
  /\ Idle
  /\ IF id \notin UnitIds THEN Rejected(request, "Polozka nenalezena")
     ELSE LET originalItem == inv[id]
              error == CutValidation(cutWidth, cutHeight, direction, originalItem)
              children == CutChildren(id, originalItem,
                            mainRemnant(cutWidth, cutHeight, direction, originalItem),
                            secondaryRemnant(cutWidth, cutHeight, direction, originalItem),
                            saveMainRemnant, saveSecondaryRemnant)
          IN
          IF originalItem.status # "AVAILABLE"
            THEN Rejected(request, "Polozka neni dostupna k rezani")
          ELSE IF MatchesWhole(cutWidth, cutHeight, originalItem)
            THEN /\ inv' = [inv EXCEPT ![id].status = "CONSUMED"]
                 /\ orders' = orders
                 /\ call' = request
                 /\ lastReserve' = NoReserve
                 /\ pending' = pending
                 /\ ledger' = ledger
          ELSE IF error # ""
            THEN Rejected(request, error)
          ELSE /\ Len(inv) + Len(children) <= MaxUnits
               /\ inv' = [inv EXCEPT ![id].status = "CONSUMED"] \o children
               /\ orders' = orders
               /\ call' = request
               /\ lastReserve' = NoReserve
               /\ pending' = pending
               /\ ledger' = ledger

\* --------------------------------------------------------- allocation cut
\* an offcut kept from the minimum dimension on
isValidOffcutFromMinimum(w, h) == w >= MIN_OFFCUT_DIMENSION_MM /\ h >= MIN_OFFCUT_DIMENSION_MM

\* part_001 442-443
isValidOffcut(w, h) == w > MIN_OFFCUT_DIMENSION_MM /\ h > MIN_OFFCUT_DIMENSION_MM

\* part_001 431-440
offcutRight(sourceItem, w_req, h_req) ==
  [width |-> sourceItem.width - w_req, height |-> sourceItem.height]
offcutTop(sourceItem, w_req, h_req) ==
  [width |-> w_req, height |-> sourceItem.height - h_req]

\* offcuts that are created reserved, like the target
OrderCutChildrenReservedOffcuts(sourceId, sourceItem, w_req, h_req) ==
  LET right == offcutRight(sourceItem, w_req, h_req)
      top == offcutTop(sourceItem, w_req, h_req)
      offcutName == generateRemnantName(sourceItem.name)
      Offcut(r) == NewUnit(offcutName, sourceItem.def, r.width, r.height,
                           sourceItem.thickness, "AVAILABLE", One, sourceId)
  IN << NewUnit(TargetName(sourceItem.name), sourceItem.def, w_req, h_req,
                sourceItem.thickness, "AVAILABLE", One, sourceId) >>
     \o (IF isValidOffcut(right.width, right.height) THEN << Offcut(right) >> ELSE <<>>)
     \o (IF isValidOffcut(top.width, top.height) THEN << Offcut(top) >> ELSE <<>>)

\* a target that does not inherit the catalog definition of the source
OrderCutChildrenNoDefinition(sourceId, sourceItem, w_req, h_req) ==
  LET right == offcutRight(sourceItem, w_req, h_req)
      top == offcutTop(sourceItem, w_req, h_req)
      offcutName == generateRemnantName(sourceItem.name)
      Offcut(r) == NewUnit(offcutName, sourceItem.def, r.width, r.height,
                           sourceItem.thickness, "AVAILABLE", 0, sourceId)
  IN << NewUnit(TargetName(sourceItem.name), NoDef, w_req, h_req,
                sourceItem.thickness, "AVAILABLE", One, sourceId) >>
     \o (IF isValidOffcut(right.width, right.height) THEN << Offcut(right) >> ELSE <<>>)
     \o (IF isValidOffcut(top.width, top.height) THEN << Offcut(top) >> ELSE <<>>)

\* part_001 466-515: target first, then the right and the top offcut
OrderCutChildren(sourceId, sourceItem, w_req, h_req) ==
  LET right == offcutRight(sourceItem, w_req, h_req)
      top == offcutTop(sourceItem, w_req, h_req)
      offcutName == generateRemnantName(sourceItem.name)
      Offcut(r) == NewUnit(offcutName, sourceItem.def, r.width, r.height,
                           sourceItem.thickness, "AVAILABLE", 0, sourceId)
  IN << NewUnit(TargetName(sourceItem.name), sourceItem.def, w_req, h_req,
                sourceItem.thickness, "AVAILABLE", One, sourceId) >>
     \o (IF isValidOffcut(right.width, right.height) THEN << Offcut(right) >> ELSE <<>>)
     \o (IF isValidOffcut(top.width, top.height) THEN << Offcut(top) >> ELSE <<>>)

PerformOrderCut(sourceItemId, targetWidth, targetHeight, quantity, orderId) ==
  LET request == [NoOp EXCEPT !.op = "ordercut", !.id = sourceItemId,
                    !.a = [targetWidth |-> targetWidth, targetHeight |-> targetHeight,
                           quantity |-> quantity]]
  IN
  /\ Idle
  /\ IF sourceItemId \notin UnitIds
       THEN Rejected(request, "Zdrojova polozka nenalezena")
     ELSE LET sourceItem == inv[sourceItemId]
              children == OrderCutChildren(sourceItemId, sourceItem, targetWidth, targetHeight)
          IN
          IF sourceItem.status # "AVAILABLE"
            THEN Rejected(request, "Zdrojova polozka neni dostupna k rezani")
          ELSE IF sourceItem.width < targetWidth \/ sourceItem.height < targetHeight
            THEN Rejected(request, "Rozmery zdrojove polozky jsou mensi nez pozadovane")
          ELSE /\ Len(inv) + Len(children) <= MaxUnits
               /\ inv' = [inv EXCEPT ![sourceItemId].status = "CONSUMED"] \o children
               /\ orders' = orders
               /\ call' = request
               /\ lastReserve' = NoReserve
               /\ pending' = pending
               /\ ledger' = ledger

\* the response is handed to the caller; the next request can be served
Return ==
  /\ ~Idle
  /\ call' = NoOp
  /\ UNCHANGED <<inv, orders, lastReserve, pending, ledger>>

Add ==
  \E choice \in AddChoices, size \in AddSizes, thickness \in Thicknesses,
     quantity \in 1..MaxAddQuantity :
    AddInventoryItem(choice, size, thickness, quantity)

Status ==
  \E id \in RequestOrderIds, newStatus \in OrderStatus : UpdateOrderStatus(id, newStatus)

Cut(requests) ==
  \E id \in RequestUnitIds, r \in requests :
    CutInventoryItem(id, r.cutWidth, r.cutHeight, r.direction,
                     r.saveMainRemnant, r.saveSecondaryRemnant)

OrderCut(requests) ==
  \E sourceItemId \in RequestUnitIds, r \in requests, orderId \in OrderIds :
    PerformOrderCut(sourceItemId, r.targetWidth, r.targetHeight, r.quantity, orderId)

\* the whole system, with a few cut requests
Next ==
  \/ Add
  \/ Status
  \/ Cut(FewCutRequests)
  \/ OrderCut(FewOrderCutRequests)
  \/ Return

Spec == Init /\ [][Next]_vars

\* the two cut operations over the full range of cut geometries
InitCut ==
  /\ inv = << NewUnit(BaseName("Ply"), 1, 30, 20, 18, "AVAILABLE", 0, NoParent) >>
  /\ orders = [o \in OrderIds |->
                 [status |-> "DRAFT", items |-> << [product |-> "P1", quantity |-> 1] >>]]
  /\ call = NoOp
  /\ lastReserve = NoReserve
  /\ pending = NoPending
  /\ ledger = NoLedger

NextCut ==
  \/ Cut(CutRequests)
  \/ OrderCut(OrderCutRequests)
  \/ Return

SpecCut == InitCut /\ [][NextCut]_vars

\* ------------------------------------------------------ concurrent requests
\* Two requests served concurrently.  A handler runs in two steps, as in the
\* code: the read it makes before its transaction, then its checks on what it
\* has read and its transaction.  The transaction is taken as one step (the
\* store isolates it); what a handler reads before it is not under that
\* isolation.  `pending` holds the stock and the orders at the start and,
\* for each request, its arguments, its position and what it has read.

\* the effect of cutInventoryItem on `units` when it has read `seen`
\* (<<>>: no such unit) for the source: [units, ok, err]
CutInventoryItemEffect(units, id, a, seen) ==
  IF seen = <<>>
    THEN [units |-> units, ok |-> FALSE, err |-> "Polozka nenalezena"]
  ELSE LET originalItem == seen[1]
           error == CutValidation(a.cutWidth, a.cutHeight, a.direction, originalItem)
           children == CutChildren(id, originalItem,
                         mainRemnant(a.cutWidth, a.cutHeight, a.direction, originalItem),
                         secondaryRemnant(a.cutWidth, a.cutHeight, a.direction, originalItem),
                         a.saveMainRemnant, a.saveSecondaryRemnant)
       IN IF originalItem.status # "AVAILABLE"
            THEN [units |-> units, ok |-> FALSE, err |-> "Polozka neni dostupna k rezani"]
          ELSE IF MatchesWhole(a.cutWidth, a.cutHeight, originalItem)
            THEN [units |-> [units EXCEPT ![id].status = "CONSUMED"], ok |-> TRUE, err |-> ""]
          ELSE IF error # ""
            THEN [units |-> units, ok |-> FALSE, err |-> error]
          ELSE [units |-> [units EXCEPT ![id].status = "CONSUMED"] \o children,
                ok |-> TRUE, err |-> ""]

\* the effect of performOrderCut when it has read `seen` for the source
PerformOrderCutEffect(units, sourceItemId, a, seen) ==
  IF seen = <<>>
    THEN [units |-> units, ok |-> FALSE, err |-> "Zdrojova polozka nenalezena"]
  ELSE LET sourceItem == seen[1] IN
       IF sourceItem.status # "AVAILABLE"
         THEN [units |-> units, ok |-> FALSE,
               err |-> "Zdrojova polozka neni dostupna k rezani"]
       ELSE IF sourceItem.width < a.targetWidth \/ sourceItem.height < a.targetHeight
         THEN [units |-> units, ok |-> FALSE,
               err |-> "Rozmery zdrojove polozky jsou mensi nez pozadovane"]
       ELSE [units |-> [units EXCEPT ![sourceItemId].status = "CONSUMED"]
                       \o OrderCutChildren(sourceItemId, sourceItem,
                                           a.targetWidth, a.targetHeight),
             ok |-> TRUE, err |-> ""]

\* the effect of updateOrderStatus when it has read `seen` for the order's
\* status: [units, orders, ok, err]
UpdateOrderStatusEffect(units, ords, id, newStatus, seen) ==
  IF seen = <<>>
    THEN [units |-> units, orders |-> ords, ok |-> FALSE, err |-> "Objednavka nenalezena"]
  ELSE LET currentStatus == seen[1] IN
       IF ~TransitionAllowed(currentStatus, newStatus)
         THEN [units |-> units, orders |-> ords, ok |-> FALSE, err |-> "Nelze zmenit status"]
       ELSE LET effect == SideEffect(units, inventoryRequirements(ords[id].items),
                                     currentStatus, newStatus)
            IN [units |-> effect.units,
                orders |-> [ords EXCEPT
                              ![id].status = WrittenStatus(currentStatus, newStatus, effect)],
                ok |-> TRUE, err |-> ""]

\* what findUnique returns for a unit and for an order's status
FindUnit(units, id) == IF id \in 1..Len(units) THEN << units[id] >> ELSE <<>>
FindOrderStatus(ords, id) == IF id \in DOMAIN ords THEN << ords[id].status >> ELSE <<>>

\* the states the two requests start from: both orders in DRAFT and nothing
\* reserved, or both in production with a unit reserved for each
RaceStarts ==
  { [units |-> [u \in 1..2 |-> NewUnit(BaseName("Ply"), 1, 30, 20, 18, "AVAILABLE",
                                        IF status = "DRAFT" THEN 0 ELSE One, NoParent)],
     orders |-> [o \in OrderIds |->
                   [status |-> status, items |-> << [product |-> "P1", quantity |-> 1] >>]]] :
    status \in {"DRAFT", "IN_PROGRESS"} }

\* the requests that run concurrently: cuts of unit 1, transitions of the orders
RaceRequests ==
  { [kind |-> "cut", id |-> 1, a |-> r] : r \in FewCutRequests }
  \cup { [kind |-> "ordercut", id |-> 1, a |-> r] : r \in FewOrderCutRequests }
  \cup { [kind |-> "status", id |-> o, a |-> [status |-> newStatus]] :
           o \in OrderIds, newStatus \in OrderStatus }

Processes == {1, 2}

NewRequest(r) ==
  [kind |-> r.kind, id |-> r.id, a |-> r.a, pc |-> "start", seen |-> <<>>,
   ok |-> FALSE, err |-> ""]

InitRace ==
  /\ \E start \in RaceStarts, r1 \in RaceRequests, r2 \in RaceRequests :
       /\ inv = start.units
       /\ orders = start.orders
       /\ pending = [start |-> start, reqs |-> << NewRequest(r1), NewRequest(r2) >>]
       /\ ledger = NoLedger
  /\ call = NoOp
  /\ lastReserve = NoReserve

\* request p returns with the response of effect e
Responded(p, e) ==
  [pending EXCEPT !.reqs[p].pc = "done", !.reqs[p].ok = e.ok, !.reqs[p].err = e.err]

\* cutInventoryItem, part_001 162-171: the source is read
CutInventoryItemRead(p) ==
  /\ pending.reqs[p].kind = "cut" /\ pending.reqs[p].pc = "start"
  /\ pending' = [pending EXCEPT !.reqs[p].pc = "read",
                                !.reqs[p].seen = FindUnit(inv, pending.reqs[p].id)]
  /\ UNCHANGED <<inv, orders, call, lastReserve, ledger>>

\* cutInventoryItem, part_001 173-338: the checks and the writes
CutInventoryItemWrite(p) ==
  LET q == pending.reqs[p]
      e == CutInventoryItemEffect(inv, q.id, q.a, q.seen)
  IN /\ q.kind = "cut" /\ q.pc = "read"
     /\ inv' = e.units
     /\ pending' = Responded(p, e)
     /\ UNCHANGED <<orders, call, lastReserve, ledger>>

\* performOrderCut, part_001 394-396: the source is read
PerformOrderCutRead(p) ==
  /\ pending.reqs[p].kind = "ordercut" /\ pending.reqs[p].pc = "start"
  /\ pending' = [pending EXCEPT !.reqs[p].pc = "read",
                                !.reqs[p].seen = FindUnit(inv, pending.reqs[p].id)]
  /\ UNCHANGED <<inv, orders, call, lastReserve, ledger>>

\* performOrderCut, part_001 398-538: the checks and the transaction
PerformOrderCutWrite(p) ==
  LET q == pending.reqs[p]
      e == PerformOrderCutEffect(inv, q.id, q.a, q.seen)
  IN /\ q.kind = "ordercut" /\ q.pc = "read"
     /\ inv' = e.units
     /\ pending' = Responded(p, e)
     /\ UNCHANGED <<orders, call, lastReserve, ledger>>

\* updateOrderStatus, orders.ts 367-371: the order's status is read
UpdateOrderStatusRead(p) ==
  /\ pending.reqs[p].kind = "status" /\ pending.reqs[p].pc = "start"
  /\ pending' = [pending EXCEPT !.reqs[p].pc = "read",
                                !.reqs[p].seen = FindOrderStatus(orders, pending.reqs[p].id)]
  /\ UNCHANGED <<inv, orders, call, lastReserve, ledger>>

\* updateOrderStatus, orders.ts 373-628: the validation and the transaction
UpdateOrderStatusWrite(p) ==
  LET q == pending.reqs[p]
      e == UpdateOrderStatusEffect(inv, orders, q.id, q.a.status, q.seen)
  IN /\ q.kind = "status" /\ q.pc = "read"
     /\ inv' = e.units
     /\ orders' = e.orders
     /\ pending' = Responded(p, e)
     /\ UNCHANGED <<call, lastReserve, ledger>>

NextRace ==
  \E p \in Processes :
    \/ CutInventoryItemRead(p)
    \/ CutInventoryItemWrite(p)
    \/ PerformOrderCutRead(p)
    \/ PerformOrderCutWrite(p)
    \/ UpdateOrderStatusRead(p)
    \/ UpdateOrderStatusWrite(p)

SpecRace == InitRace /\ [][NextRace]_vars

\* ------------------------------------------------- source boards for a cut
\* the stock a query for source boards is run on: up to MaxBoards units of
\* two catalog definitions, in sizes where the wider board is not the larger
MaxBoards == 2
BoardWidths == {15, 30}
BoardHeights == {20, 50}
BoardChoices ==
  { NewUnit(BaseName(IF def = 1 THEN "Ply" ELSE "Leg"), def, w, h, 18, status, reserved,
            NoParent) :
      def \in {1, 2}, w \in BoardWidths, h \in BoardHeights,
      status \in InventoryStatus, reserved \in {0, One} }
BoardStocks ==
  UNION { { stock \in [1..n -> BoardChoices] :
              \A u \in 1..n : stock[u].status # "AVAILABLE" => stock[u].reserved = 0 } :
          n \in 1..MaxBoards }

\* part_001 40-44: below, between and above the board sizes
SourceBoardRequests ==
  [itemDefinitionId : {1, 2}, minWidth : {15, 20, 40}, minHeight : {20, 50}]

\* part_001 348-353: the `where` of the query
IsSourceBoard(unit, r) ==
  /\ unit.def = r.itemDefinitionId
  /\ unit.status = "AVAILABLE"
  /\ unit.width >= r.minWidth
  /\ unit.height >= r.minHeight

\* part_001 354: orderBy [{ width: 'asc' }, { height: 'asc' }]
OrderedBefore(a, b) ==
  a.width < b.width \/ (a.width = b.width /\ a.height <= b.height)

\* part_001 347-364: the ids a query may return; the store is free to order
\* the boards of equal width and height either way
SourceBoards(units, r) ==
  LET found == { u \in 1..Len(units) : IsSourceBoard(units[u], r) }
  IN { data \in [1..Cardinality(found) -> found] :
         /\ \A i, j \in DOMAIN data : i # j => data[i] # data[j]
         /\ \A i, j \in DOMAIN data : i < j => OrderedBefore(units[data[i]], units[data[j]]) }

InitBoards ==
  /\ inv \in BoardStocks
  /\ orders = [o \in OrderIds |->
                 [status |-> "DRAFT", items |-> << [product |-> "P1", quantity |-> 1] >>]]
  /\ call = NoOp
  /\ lastReserve = NoReserve
  /\ pending = NoPending
  /\ ledger = NoLedger

\* getAvailableSourceBoards: a read; the boards found are in the response
GetAvailableSourceBoards(r) ==
  /\ Idle
  /\ \E data \in SourceBoards(inv, r) :
       call' = [NoOp EXCEPT !.op = "boards", !.a = [request |-> r, data |-> data]]
  /\ UNCHANGED <<inv, orders, lastReserve, pending, ledger>>

Boards == \E r \in SourceBoardRequests : GetAvailableSourceBoards(r)

NextBoards ==
  \/ Boards
  \/ Return

SpecBoards == InitBoards /\ [][NextBoards]_vars

\* --------------------------------------------------- the other order writes
\* the orders createOrder may add to the two initial ones
MaxOrders == 3
\* updateOrder called without a status
Undefined == "undefined"

\* createOrder, orders.ts 119-131: a new order without lines, in the status
\* asked for, DRAFT by default
CreateOrder(status) ==
  /\ Idle
  /\ Len(orders) < MaxOrders
  /\ orders' = Append(orders, [status |-> IF status = Undefined THEN "DRAFT" ELSE status,
                               items |-> <<>>])
  /\ call' = [NoOp EXCEPT !.op = "create", !.id = Len(orders) + 1, !.to = status]
  /\ UNCHANGED <<inv, lastReserve, pending, ledger>>

\* updateOrder, orders.ts 158-228: the name and, when given, the status are
\* written as they come
UpdateOrder(id, status) ==
  LET request == [NoOp EXCEPT !.op = "update", !.id = id, !.to = status] IN
  /\ Idle
  /\ IF id \notin DOMAIN orders
     THEN Rejected(request, "Objednavka nenalezena")
     ELSE /\ orders' = IF status = Undefined THEN orders
                       ELSE [orders EXCEPT ![id].status = status]
          /\ call' = [request EXCEPT !.from = orders[id].status]
          /\ UNCHANGED <<inv, lastReserve, pending, ledger>>

Create == \E status \in OrderStatus \cup {Undefined} : CreateOrder(status)

Update ==
  \E id \in 1..MaxOrders, status \in OrderStatus \cup {Undefined} : UpdateOrder(id, status)

StatusOfAny ==
  \E id \in 1..MaxOrders, newStatus \in OrderStatus : UpdateOrderStatus(id, newStatus)

\* every operation that writes an order, on the initial stock
NextOrders ==
  \/ Create
  \/ Update
  \/ StatusOfAny
  \/ Return

SpecOrders == Init /\ [][NextOrders]_vars

\* ------------------------------------------------ the lifetime of an order
\* the status transitions alone, on the initial stock, with the ledger kept
InitLedger ==
  /\ \E second \in {"Ply", "Leg"} :
       inv = << NewUnit(BaseName("Ply"), 1, 30, 20, 18, "AVAILABLE", 0, NoParent),
                NewUnit(BaseName(second), IF second = "Ply" THEN 1 ELSE NoDef, 30, 20, 18,
                        "AVAILABLE", 0, NoParent) >>
  /\ \E items \in OrderLines :
       orders = [o \in OrderIds |->
                   [status |-> "DRAFT",
                    items |-> IF o = 1 THEN items
                              ELSE << [product |-> "P1", quantity |-> 1] >>]]
  /\ call = NoOp
  /\ lastReserve = NoReserve
  /\ pending = NoPending
  /\ ledger = [kept |-> TRUE, reserved |-> [o \in OrderIds |-> {}],
               consumed |-> [o \in OrderIds |-> {}]]

NextLedger ==
  \/ Status
  \/ Return

SpecLedger == InitLedger /\ [][NextLedger]_vars

(***************************************************************************)
(* Properties                                                              *)
(***************************************************************************)
StatusCall == call.op = "status" /\ call.id \in OrderIds

\* the accepted (from, to) pairs other than those into CANCELLED
AcceptedPairs ==
  { <<"DRAFT", "IN_PROGRESS">>, <<"IN_PROGRESS", "COMPLETED">>, <<"IN_PROGRESS", "DRAFT">>,
    <<"COMPLETED", "IN_PROGRESS">>, <<"CANCELLED", "DRAFT">> }

\* C1: updateOrderStatus accepts a request exactly when the target is
\* CANCELLED or (from, to) is one of the five pairs of the transition table,
\* and an accepted request leaves the order with the requested status.
C1_TransitionTable ==
  StatusCall =>
    /\ call.ok <=> (call.to = "CANCELLED" \/ <<call.from, call.to>> \in AcceptedPairs)
    /\ call.ok => orders[call.id].status = call.to
    /\ ~call.ok => orders[call.id].status = call.from

\* C1 witness: a completed order has been reopened
C1_Witness ==
  /\ StatusCall /\ call.ok
  /\ call.from = "COMPLETED" /\ call.to = "IN_PROGRESS"
  /\ orders[call.id].status = "IN_PROGRESS"

\* C2: a rejected updateOrderStatus request (transition not allowed, or no
\* such order) changes neither an order nor a stock unit.
C2_RejectionWritesNothing ==
  [][ (call'.op = "status" /\ ~call'.ok) => (inv' = inv /\ orders' = orders) ]_vars

\* C2 witness: a transition was refused while a unit was reserved
C2_Witness ==
  /\ StatusCall /\ ~call.ok
  /\ call.from = "IN_PROGRESS" /\ call.to = "IN_PROGRESS"
  /\ \E u \in UnitIds : inv[u].reserved > 0

\* the units of a stock group: same name, width and height
Group(u) ==
  { v \in UnitIds : /\ inv[v].name = inv[u].name
                    /\ inv[v].width = inv[u].width
                    /\ inv[v].height = inv[u].height }

RECURSIVE SumReserved(_)
SumReserved(ids) ==
  IF ids = {} THEN 0
  ELSE LET u == CHOOSE x \in ids : TRUE IN inv[u].reserved + SumReserved(ids \ {u})

\* C3: in every stock group the total reservedQuantity does not exceed the
\* number of AVAILABLE units of the group.
C3_ReservedWithinAvailable ==
  \A u \in UnitIds :
    SumReserved(Group(u)) <= One * Cardinality({ v \in Group(u) : inv[v].status = "AVAILABLE" })

\* C4: every unit has 0 <= reservedQuantity <= 1, and a nonzero
\* reservedQuantity only while its status is AVAILABLE or REMNANT.
C4_ReservedOnlyOnStock ==
  \A u \in UnitIds :
    /\ 0 <= inv[u].reserved /\ inv[u].reserved <= One
    /\ inv[u].reserved > 0 => inv[u].status \in {"AVAILABLE", "REMNANT"}

\* the names an order requires, from its lines and their recipes
RequiredNames(o) ==
  UNION { { inv[Products[orders[o].items[l].product][k].inventoryItemId].name :
              k \in DOMAIN Products[orders[o].items[l].product] } :
          l \in DOMAIN orders[o].items }

\* C5: a DRAFT -> IN_PROGRESS or COMPLETED -> IN_PROGRESS request always
\* commits IN_PROGRESS, under-covered or not; it lowers no reservation and
\* reserves a unit of every required group that has a free AVAILABLE unit.
C5_BestEffortReservation ==
  [][ ( /\ call'.op = "status" /\ call'.id \in OrderIds
        /\ call'.to = "IN_PROGRESS"
        /\ orders[call'.id].status \in {"DRAFT", "COMPLETED"} )
      => /\ call'.ok
         /\ orders'[call'.id].status = "IN_PROGRESS"
         /\ Len(inv') = Len(inv)
         /\ \A u \in UnitIds : /\ inv'[u].reserved >= inv[u].reserved
                               /\ inv'[u].status = inv[u].status
         /\ \A n \in RequiredNames(call'.id) :
              (\E u \in UnitIds : /\ inv[u].name = n /\ inv[u].status = "AVAILABLE"
                                  /\ inv[u].reserved = 0)
              => (\E u \in UnitIds : /\ inv[u].name = n /\ inv[u].reserved = 0
                                     /\ inv'[u].reserved > 0)
    ]_vars

\* C5 witness: an under-covered order went into production with the one
\* reservation that could be made
C5_Witness ==
  /\ StatusCall /\ call.ok
  /\ call.from = "DRAFT" /\ call.to = "IN_PROGRESS"
  /\ call.warned # {} /\ call.touched # {}
  /\ orders[call.id].status = "IN_PROGRESS"

\* the ingredient rows of an order: one per order line and recipe line
IngredientRows(o) ==
  UNION { { <<l, k>> : k \in DOMAIN Products[orders[o].items[l].product] } :
          l \in DOMAIN orders[o].items }

RowItem(o, row) == Products[orders[o].items[row[1]].product][row[2]].inventoryItemId
RowQty(o, row) ==
  orders[o].items[row[1]].quantity * Products[orders[o].items[row[1]].product][row[2]].quantity

RECURSIVE SumQty(_, _)
SumQty(o, rows) ==
  IF rows = {} THEN 0
  ELSE LET r == CHOOSE x \in rows : TRUE IN RowQty(o, r) + SumQty(o, rows \ {r})

\* the aggregated quantity an order requires of a referenced stock item
AggregatedQty(o, item) == SumQty(o, { r \in IngredientRows(o) : RowItem(o, r) = item })
RequiredItems(o) == { RowItem(o, r) : r \in IngredientRows(o) }

\* the k oldest units of a name that carry a reservation
OldestReserved(name, k) ==
  { u \in UnitIds :
      /\ inv[u].name = name /\ inv[u].reserved > 0
      /\ Cardinality({ v \in 1..(u - 1) : inv[v].name = name /\ inv[v].reserved > 0 }) < k }

Completes(o) ==
  /\ call'.op = "status" /\ call'.id = o /\ call'.ok
  /\ orders[o].status = "IN_PROGRESS" /\ call'.to = "COMPLETED"

\* every required group: the ceil(q) oldest reserved units end CONSUMED, unreserved
ConsumesOldestReserved(o) ==
  \A item \in RequiredItems(o) :
    \A u \in OldestReserved(inv[item].name, Ceil(AggregatedQty(o, item))) :
      inv'[u].status = "CONSUMED" /\ inv'[u].reserved = 0

\* the order needs whole units only, and its own DRAFT -> IN_PROGRESS
\* transition, the latest committed request, has reserved all of them
ReservedAllItsUnits(o) ==
  /\ lastReserve.order = o /\ lastReserve.covered
  /\ \A item \in RequiredItems(o) : AggregatedQty(o, item) % One = 0

\* exactly the units of that reservation become CONSUMED and unreserved
ConsumesExactlyItsUnits ==
  /\ Len(inv') = Len(inv)
  /\ \A u \in UnitIds :
       inv'[u] = IF u \in lastReserve.units
                 THEN [inv[u] EXCEPT !.status = "CONSUMED", !.reserved = 0]
                 ELSE inv[u]

\* no unit of a required group is reserved but those the order reserved itself
NoForeignReservation(o) ==
  \A u \in UnitIds :
    (inv[u].reserved > 0 /\ inv[u].name \in RequiredNames(o)) => u \in lastReserve.units

\* C6 as stated: on IN_PROGRESS -> COMPLETED the ceil(q) oldest reserved units
\* of each required group end CONSUMED with reservedQuantity 0, and an order
\* that reserved all its k whole units just before consumes exactly those.
C6_AsStated ==
  [][ \A o \in OrderIds : Completes(o) =>
        /\ ConsumesOldestReserved(o)
        /\ ReservedAllItsUnits(o) => ConsumesExactlyItsUnits ]_vars

\* C6 amended: the same, the second part for an order whose groups hold no
\* reservation other than its own.
C6_ConsumeOldestReserved ==
  [][ \A o \in OrderIds : Completes(o) =>
        /\ ConsumesOldestReserved(o)
        /\ (ReservedAllItsUnits(o) /\ NoForeignReservation(o)) => ConsumesExactlyItsUnits ]_vars

\* C6 witness: an order that had reserved its two units was completed right
\* after, and both are consumed
C6_Witness ==
  /\ StatusCall /\ call.ok /\ call.from = "IN_PROGRESS" /\ call.to = "COMPLETED"
  /\ Cardinality(call.touched) = 2
  /\ \A u \in call.touched : inv[u].status = "CONSUMED" /\ inv[u].reserved = 0
  /\ \A u \in UnitIds \ call.touched : inv[u].reserved = 0 /\ inv[u].status # "CONSUMED"

\* the width and the height a cut request asks for
AskedWidth(c) == IF c.op = "cut" THEN c.a.cutWidth ELSE c.a.targetWidth
AskedHeight(c) == IF c.op = "cut" THEN c.a.cutHeight ELSE c.a.targetHeight

NotFoundError(c) ==
  IF c.op = "cut" THEN "Polozka nenalezena" ELSE "Zdrojova polozka nenalezena"
NotAvailableError(c) ==
  IF c.op = "cut" THEN "Polozka neni dostupna k rezani"
  ELSE "Zdrojova polozka neni dostupna k rezani"
TooLargeErrors(c) ==
  IF c.op = "cut" THEN { "Sirka rezu nesmi byt vetsi nez sirka puvodni polozky",
                         "Vyska rezu nesmi byt vetsi nez vyska puvodni polozky" }
  ELSE { "Rozmery zdrojove polozky jsou mensi nez pozadovane" }

\* C7 as stated: a cut request (manual or allocation) on a missing source, on
\* a source that is not AVAILABLE, or for dimensions beyond the source fails
\* with the error of that cause, and a failing cut request writes nothing.
C7_AsStated ==
  [][ call'.op \in {"cut", "ordercut"} =>
        /\ call'.id \notin UnitIds =>
             ~call'.ok /\ call'.err = NotFoundError(call')
        /\ (call'.id \in UnitIds /\ inv[call'.id].status # "AVAILABLE") =>
             ~call'.ok /\ call'.err = NotAvailableError(call')
        /\ ( /\ call'.id \in UnitIds /\ inv[call'.id].status = "AVAILABLE"
             /\ \/ AskedWidth(call') > inv[call'.id].width
                \/ AskedHeight(call') > inv[call'.id].height ) =>
             ~call'.ok /\ call'.err \in TooLargeErrors(call')
        /\ ~call'.ok => (inv' = inv /\ orders' = orders) ]_vars

\* C8 as stated: a manual cut with cutWidth > source.width or cutHeight >
\* source.height is rejected in either direction and leaves the source AVAILABLE.
C8_AsStated ==
  [][ ( /\ call'.op = "cut" /\ call'.id \in UnitIds
        /\ inv[call'.id].status = "AVAILABLE"
        /\ \/ call'.a.cutWidth > inv[call'.id].width
           \/ call'.a.cutHeight > inv[call'.id].height )
      => (~call'.ok /\ inv'[call'.id].status = "AVAILABLE") ]_vars

\* C9: a manual cut of an AVAILABLE source to the source's own width and
\* height succeeds, creates no unit whatever the save flags and the
\* direction, and changes nothing but the source's status, to CONSUMED.
C9_ConsumeWhole ==
  [][ ( /\ call'.op = "cut" /\ call'.id \in UnitIds
        /\ inv[call'.id].status = "AVAILABLE"
        /\ call'.a.cutWidth = inv[call'.id].width
        /\ call'.a.cutHeight = inv[call'.id].height )
      => ( /\ call'.ok
           /\ inv' = [inv EXCEPT ![call'.id].status = "CONSUMED"] ) ]_vars

\* C9 witness: a board was cut to its own size with both remnants asked for
C9_Witness ==
  /\ call.op = "cut" /\ call.ok
  /\ call.a.saveMainRemnant /\ call.a.saveSecondaryRemnant
  /\ call.a.cutWidth = inv[call.id].width /\ call.a.cutHeight = inv[call.id].height
  /\ inv[call.id].status = "CONSUMED"
  /\ \A u \in UnitIds : inv[u].parent # call.id

Area(r) == r.width * r.height
RemnantArea(remnant) == IF remnant = <<>> THEN 0 ELSE Area(remnant[1])

\* the area of the cut piece and of the remnants computed for a manual cut
ManualCutArea(c, item) ==
  c.a.cutWidth * c.a.cutHeight
  + (IF MatchesWhole(c.a.cutWidth, c.a.cutHeight, item) THEN 0
     ELSE RemnantArea(mainRemnant(c.a.cutWidth, c.a.cutHeight, c.a.direction, item))
          + RemnantArea(secondaryRemnant(c.a.cutWidth, c.a.cutHeight, c.a.direction, item)))

\* C10 as stated: for an accepted cut the area of the piece and of its
\* remnants (of the offcuts kept, for an allocation cut) is at most the area
\* of the source, and equal to it when the minimum-offcut rule drops nothing.
C10_AsStated ==
  /\ (call.op = "cut" /\ call.ok) =>
       ManualCutArea(call, inv[call.id]) = Area(inv[call.id])
  /\ (call.op = "ordercut" /\ call.ok) =>
       LET item == inv[call.id]
           right == offcutRight(item, call.a.targetWidth, call.a.targetHeight)
           top == offcutTop(item, call.a.targetWidth, call.a.targetHeight)
           keptRight == right.width > 10 /\ right.height > 10
           keptTop == top.width > 10 /\ top.height > 10
           total == call.a.targetWidth * call.a.targetHeight
                    + (IF keptRight THEN Area(right) ELSE 0)
                    + (IF keptTop THEN Area(top) ELSE 0)
       IN /\ total <= Area(item)
          /\ (keptRight /\ keptTop) => total = Area(item)

\* a step in which an allocation cut has succeeded
AllocationCutDone == call'.op = "ordercut" /\ call'.ok

\* the units a step has created
CreatedUnits == (Len(inv) + 1)..Len(inv')

\* unit u was created from source s with the source's thickness and definition
ChildOf(u, s) ==
  /\ inv'[u].parent = s
  /\ inv'[u].thickness = inv[s].thickness
  /\ inv'[u].def = inv[s].def

\* C11: a successful allocation cut marks the source CONSUMED and changes no
\* other existing unit; it creates exactly one target (targetWidth x
\* targetHeight, AVAILABLE, reservedQuantity 1) whatever `quantity` is, and
\* at most two offcuts (AVAILABLE, reservedQuantity 0); every created unit
\* has the source as parent and the source's thickness and definition.
C11_AllocationCut ==
  [][ AllocationCutDone =>
        LET s == call'.id IN
        /\ Len(inv') \in (Len(inv) + 1)..(Len(inv) + 3)
        /\ \A u \in UnitIds :
             inv'[u] = IF u = s THEN [inv[u] EXCEPT !.status = "CONSUMED"] ELSE inv[u]
        /\ \E t \in CreatedUnits :
             /\ inv'[t].width = call'.a.targetWidth
             /\ inv'[t].height = call'.a.targetHeight
             /\ inv'[t].status = "AVAILABLE" /\ inv'[t].reserved = One
             /\ ChildOf(t, s)
             /\ \A u \in CreatedUnits \ {t} :
                  inv'[u].status = "AVAILABLE" /\ inv'[u].reserved = 0 /\ ChildOf(u, s) ]_vars

\* C11 witness: an allocation cut asked with quantity 2 has made one reserved
\* target and two offcuts
C11_Witness ==
  /\ call.op = "ordercut" /\ call.ok /\ call.a.quantity = 2
  /\ Cardinality({ u \in UnitIds : inv[u].parent = call.id }) = 3
  /\ Cardinality({ u \in UnitIds : inv[u].parent = call.id /\ inv[u].reserved = One }) = 1

\* the created units that are not reserved and have the size of r
OffcutsOfSize(r) ==
  { u \in CreatedUnits :
      inv'[u].reserved = 0 /\ inv'[u].width = r.width /\ inv'[u].height = r.height }

\* C12: an allocation cut stores the right offcut (W - targetWidth) x H and
\* the top offcut targetWidth x (H - targetHeight) each exactly when both of
\* its dimensions are greater than 10, and stores nothing else but the target.
C12_MinimumOffcut ==
  [][ AllocationCutDone =>
        LET item == inv[call'.id]
            right == [width |-> item.width - call'.a.targetWidth, height |-> item.height]
            top == [width |-> call'.a.targetWidth, height |-> item.height - call'.a.targetHeight]
            keptRight == right.width > 10 /\ right.height > 10
            keptTop == top.width > 10 /\ top.height > 10
        IN /\ (OffcutsOfSize(right) # {}) <=> keptRight
           /\ (OffcutsOfSize(top) # {}) <=> keptTop
           /\ Len(inv') = Len(inv) + 1 + (IF keptRight THEN 1 ELSE 0) + (IF keptTop THEN 1 ELSE 0)
           /\ \A u \in CreatedUnits :
                inv'[u].reserved = 0 => (inv'[u].width > 10 /\ inv'[u].height > 10)
     ]_vars

\* C12 witness: the right offcut was exactly 10 wide and is not stored, the
\* top offcut is
C12_Witness ==
  /\ call.op = "ordercut" /\ call.ok
  /\ inv[call.id].width - call.a.targetWidth = 10
  /\ inv[call.id].height - call.a.targetHeight > 10
  /\ Cardinality({ u \in UnitIds : inv[u].parent = call.id }) = 2

\* the requirement that an allocation cut request c on source s resolves:
\* one piece of the requested size of the source's definition
CutRequirement(c, s) ==
  [itemDefinitionId |-> s.def, sized |-> TRUE,
   width |-> c.a.targetWidth, height |-> c.a.targetHeight, quantityRequired |-> One]

\* C13: when a requirement of one piece of some size is cut_needed and an
\* allocation cut of a board of its definition to that size succeeds, the
\* availability check computed after the cut classifies it ready.
C13_CutMakesReady ==
  [][ ( /\ AllocationCutDone
        /\ inv[call'.id].def # NoDef
        /\ MaterialStatus(inv, CutRequirement(call', inv[call'.id])) = "cut_needed" )
      => MaterialStatus(inv', CutRequirement(call', inv[call'.id])) = "ready" ]_vars

\* C13 witness: a larger board was cut to the required size, and the only
\* AVAILABLE unit of that size is the target of the cut
C13_Witness ==
  /\ call.op = "ordercut" /\ call.ok
  /\ inv[call.id].width > call.a.targetWidth
  /\ \A u \in UnitIds :
       ( /\ inv[u].status = "AVAILABLE" /\ inv[u].def = inv[call.id].def
         /\ inv[u].width = call.a.targetWidth /\ inv[u].height = call.a.targetHeight )
       => (inv[u].parent = call.id /\ inv[u].reserved = One)
  /\ MaterialStatus(inv, CutRequirement(call, inv[call.id])) = "ready"

\* the requirement groups the availability check is examined on
Requirements ==
  [itemDefinitionId : {1, 2}, sized : BOOLEAN, width : {15, 30, 40}, height : {15, 20},
   quantityRequired : {One, 2 * One, 3 * One}]

\* the AVAILABLE units of the requirement's definition
StockOf(req) ==
  { u \in UnitIds : inv[u].status = "AVAILABLE" /\ inv[u].def = req.itemDefinitionId }
ExactStock(req) ==
  { u \in StockOf(req) : inv[u].width = req.width /\ inv[u].height = req.height }
LargerStock(req) ==
  { u \in StockOf(req) \ ExactStock(req) :
      inv[u].width >= req.width /\ inv[u].height >= req.height }

\* C14: a sized requirement is ready iff exact >= requiredQty, otherwise
\* cut_needed iff exact + larger > 0, otherwise missing; a requirement
\* without dimensions is ready iff the AVAILABLE units of the definition
\* number at least requiredQty, missing otherwise, and never cut_needed.
C14_Classification ==
  \A req \in Requirements :
    LET status == MaterialStatus(inv, req)
        exact == Cardinality(ExactStock(req))
        larger == Cardinality(LargerStock(req))
    IN /\ status \in {"ready", "cut_needed", "missing"}
       /\ req.sized =>
            /\ status = "ready" <=> exact * One >= req.quantityRequired
            /\ status = "cut_needed" <=>
                 (exact * One < req.quantityRequired /\ exact + larger > 0)
            /\ status = "missing" <=> (exact * One < req.quantityRequired /\ exact + larger = 0)
       /\ ~req.sized =>
            /\ status = "ready" <=> Cardinality(StockOf(req)) * One >= req.quantityRequired
            /\ status = "missing" <=> Cardinality(StockOf(req)) * One < req.quantityRequired
            /\ status # "cut_needed"

\* C14 witness: with one exact unit and one larger board in stock, two pieces
\* of that size are cut_needed, one piece is ready, a wider size is missing
C14_Witness ==
  LET req == [itemDefinitionId |-> 1, sized |-> TRUE, width |-> 15, height |-> 15,
              quantityRequired |-> 2 * One]
  IN /\ Cardinality(ExactStock(req)) = 1 /\ Cardinality(LargerStock(req)) = 1
     /\ MaterialStatus(inv, req) = "cut_needed"
     /\ MaterialStatus(inv, [req EXCEPT !.quantityRequired = One]) = "ready"
     /\ MaterialStatus(inv, [req EXCEPT !.width = 40]) = "missing"
     /\ MaterialStatus(inv, [req EXCEPT !.sized = FALSE]) = "ready"

\* the aggregated quantity an order requires of the group with a name
GroupQty(o, name) ==
  SumQty(o, { r \in IngredientRows(o) : inv[RowItem(o, r)].name = name })

\* the units of a name that are AVAILABLE and carry no reservation
Unreserved(name) ==
  { u \in UnitIds : inv[u].name = name /\ inv[u].status = "AVAILABLE" /\ inv[u].reserved = 0 }

\* the k oldest of them
OldestUnreserved(name, k) ==
  { u \in Unreserved(name) : Cardinality({ v \in Unreserved(name) : v < u }) < k }

\* order o is moved to IN_PROGRESS from DRAFT or from COMPLETED
Reserves(o) ==
  /\ call'.op = "status" /\ call'.id = o /\ call'.ok
  /\ orders[o].status \in {"DRAFT", "COMPLETED"} /\ call'.to = "IN_PROGRESS"

\* C17 as stated: on an accepted DRAFT -> IN_PROGRESS or COMPLETED ->
\* IN_PROGRESS transition the units that change are, for each required group
\* with aggregated quantity q, exactly the min(ceil(q), n) oldest of its n
\* AVAILABLE unreserved units; each of them ends with reservedQuantity 1, also
\* when q is fractional, and nothing else changes.
C17_AsStated ==
  [][ \A o \in OrderIds : Reserves(o) =>
        /\ Len(inv') = Len(inv)
        /\ \A u \in UnitIds :
             inv'[u] = IF \E g \in RequiredNames(o) :
                             u \in OldestUnreserved(g, Ceil(GroupQty(o, g)))
                       THEN [inv[u] EXCEPT !.reserved = One]
                       ELSE inv[u] ]_vars

\* the total reservedQuantity of the units ids of an inventory
RECURSIVE SumReservedIn(_, _)
SumReservedIn(units, ids) ==
  IF ids = {} THEN 0
  ELSE LET u == CHOOSE x \in ids : TRUE
       IN units[u].reserved + SumReservedIn(units, ids \ {u})

\* order o is moved from IN_PROGRESS back to DRAFT or to CANCELLED
Releases(o) ==
  /\ call'.op = "status" /\ call'.id = o /\ call'.ok
  /\ orders[o].status = "IN_PROGRESS" /\ call'.to \in {"DRAFT", "CANCELLED"}

\* C18: on an accepted IN_PROGRESS -> DRAFT or IN_PROGRESS -> CANCELLED
\* transition no unit changes status, no reservedQuantity increases or drops
\* below 0, and for each required group with quantity q the ceil(q) oldest
\* reserved units lose min(q, their summed reservedQuantity) in total.
C18_Release ==
  [][ \A o \in OrderIds : Releases(o) =>
        /\ Len(inv') = Len(inv)
        /\ \A u \in UnitIds :
             /\ inv'[u] = [inv[u] EXCEPT !.reserved = inv'[u].reserved]
             /\ inv'[u].reserved >= 0 /\ inv'[u].reserved <= inv[u].reserved
        /\ \A g \in RequiredNames(o) :
             LET oldest == OldestReserved(g, Ceil(GroupQty(o, g)))
             IN SumReservedIn(inv, oldest) - SumReservedIn(inv', oldest)
                  = Min(GroupQty(o, g), SumReservedIn(inv, oldest)) ]_vars

\* C18 witness: a cancelled order in production has released a reservation
\* and its units are AVAILABLE and unreserved
C18_Witness ==
  /\ StatusCall /\ call.ok /\ call.from = "IN_PROGRESS" /\ call.to = "CANCELLED"
  /\ call.touched # {}
  /\ \A u \in call.touched : inv[u].status = "AVAILABLE" /\ inv[u].reserved = 0

\* C19: the accepted transitions CANCELLED -> DRAFT, DRAFT -> CANCELLED,
\* COMPLETED -> CANCELLED and CANCELLED -> CANCELLED change the status of the
\* order and nothing else: no stock unit and no other order.
C19_StatusOnly ==
  [][ \A o \in OrderIds :
        ( /\ call'.op = "status" /\ call'.id = o /\ call'.ok
          /\ <<orders[o].status, call'.to>> \in
               { <<"CANCELLED", "DRAFT">>, <<"DRAFT", "CANCELLED">>,
                 <<"COMPLETED", "CANCELLED">>, <<"CANCELLED", "CANCELLED">> } )
        => (inv' = inv /\ orders' = [orders EXCEPT ![o].status = call'.to]) ]_vars

\* C19 witness: a draft order was cancelled while a unit of a name it
\* requires was reserved
C19_Witness ==
  /\ StatusCall /\ call.ok /\ call.from = "DRAFT" /\ call.to = "CANCELLED"
  /\ orders[call.id].status = "CANCELLED"
  /\ \E u \in UnitIds : inv[u].reserved > 0 /\ inv[u].name \in RequiredNames(call.id)

\* a step in which a manual cut other than consume-whole has succeeded
RemnantCutDone ==
  /\ call'.op = "cut" /\ call'.ok
  /\ ~(call'.a.cutWidth = inv[call'.id].width /\ call'.a.cutHeight = inv[call'.id].height)

\* a remnant unit of source s with the given size
RemnantUnit(s, w, h) ==
  [inv[s] EXCEPT !.name = [@ EXCEPT !.rem = @ + 1], !.width = w, !.height = h,
                 !.status = "REMNANT", !.reserved = 0, !.parent = s]

\* C20: a successful manual cut that is not consume-whole marks the source
\* CONSUMED, changes no other existing unit, and creates the main remnant iff
\* saveMainRemnant and the secondary remnant iff saveSecondaryRemnant and the
\* cut leaves one (horizontal: main (W - cutWidth) x H, secondary cutWidth x
\* (H - cutHeight) if cutHeight < H; vertical: main W x (H - cutHeight),
\* secondary (W - cutWidth) x cutHeight if cutWidth < W), each a REMNANT
\* with reservedQuantity 0, the source as parent and the source's thickness
\* and definition.
C20_Remnants ==
  [][ RemnantCutDone =>
        LET s == call'.id
            W == inv[s].width
            H == inv[s].height
            cw == call'.a.cutWidth
            ch == call'.a.cutHeight
            horizontal == call'.a.direction = "horizontal"
            main == IF horizontal THEN RemnantUnit(s, W - cw, H) ELSE RemnantUnit(s, W, H - ch)
            secondary == IF horizontal THEN RemnantUnit(s, cw, H - ch)
                         ELSE RemnantUnit(s, W - cw, ch)
            hasSecondary == IF horizontal THEN ch < H ELSE cw < W
        IN inv' = [inv EXCEPT ![s].status = "CONSUMED"]
                  \o (IF call'.a.saveMainRemnant THEN << main >> ELSE <<>>)
                  \o (IF call'.a.saveSecondaryRemnant /\ hasSecondary
                      THEN << secondary >> ELSE <<>>) ]_vars

\* C20 witness: a vertical cut inside the board has stored both remnants
C20_Witness ==
  /\ call.op = "cut" /\ call.ok /\ call.a.direction = "vertical"
  /\ call.a.cutWidth < inv[call.id].width /\ call.a.cutHeight < inv[call.id].height
  /\ inv[call.id].status = "CONSUMED"
  /\ Cardinality({ u \in UnitIds : inv[u].parent = call.id /\ inv[u].status = "REMNANT" }) = 2

\* both concurrent requests have returned
RaceDone == \A p \in Processes : pending.reqs[p].pc = "done"

\* request r served alone, from its read to its response, on state s
Atomic(s, r) ==
  IF r.kind = "cut"
    THEN LET e == CutInventoryItemEffect(s.units, r.id, r.a, FindUnit(s.units, r.id))
         IN [units |-> e.units, orders |-> s.orders, ok |-> e.ok, err |-> e.err]
  ELSE IF r.kind = "ordercut"
    THEN LET e == PerformOrderCutEffect(s.units, r.id, r.a, FindUnit(s.units, r.id))
         IN [units |-> e.units, orders |-> s.orders, ok |-> e.ok, err |-> e.err]
  ELSE UpdateOrderStatusEffect(s.units, s.orders, r.id, r.a.status,
                               FindOrderStatus(s.orders, r.id))

\* the stock, the orders and the two responses when request `first` is
\* served to its end before the other one starts
SerialOutcome(first) ==
  LET second == CHOOSE p \in Processes : p # first
      a == Atomic(pending.start, pending.reqs[first])
      b == Atomic(a, pending.reqs[second])
  IN [units |-> b.units, orders |-> b.orders,
      responses |-> [p \in Processes |-> IF p = first THEN <<a.ok, a.err>>
                                         ELSE <<b.ok, b.err>>]]

\* what the two concurrent requests have left
RaceOutcome ==
  [units |-> inv, orders |-> orders,
   responses |-> [p \in Processes |-> <<pending.reqs[p].ok, pending.reqs[p].err>>]]

\* C15 as stated: two concurrent cut requests (manual or allocation) on the
\* same AVAILABLE source leave the stock and the responses of one of the two
\* serial executions: the source consumed once, the children of at most one
\* cut, the other request refused.
C15_AsStated ==
  ( /\ RaceDone
    /\ \A p \in Processes : pending.reqs[p].kind \in {"cut", "ordercut"}
    /\ pending.reqs[1].id = pending.reqs[2].id
    /\ pending.start.units[pending.reqs[1].id].status = "AVAILABLE" )
  => RaceOutcome \in { SerialOutcome(1), SerialOutcome(2) }

\* C16 as stated: two concurrent updateOrderStatus requests leave the order
\* statuses and the stock units of one of the two serial executions.
C16_AsStated ==
  ( /\ RaceDone
    /\ \A p \in Processes : pending.reqs[p].kind = "status" )
  => \E first \in Processes :
       /\ inv = SerialOutcome(first).units
       /\ orders = SerialOutcome(first).orders

\* the units cut from source s
ChildrenOf(s) == { u \in UnitIds : inv[u].parent = s }

\* the number of remnants the manual cut in `call` has asked for
RemnantsAsked ==
  LET s == inv[call.id]
      hasSecondary == IF call.a.direction = "horizontal" THEN call.a.cutHeight < s.height
                      ELSE call.a.cutWidth < s.width
  IN (IF call.a.saveMainRemnant THEN 1 ELSE 0)
     + (IF call.a.saveSecondaryRemnant /\ hasSecondary THEN 1 ELSE 0)

\* C21: in every committed state the parent of every unit that has one is
\* CONSUMED, and the source of a cut that has just succeeded is CONSUMED
\* together with the children asked for: all the remnants of a manual cut
\* that is not consume-whole, the target of an allocation cut.
C21_ChildrenOfConsumed ==
  /\ \A u \in UnitIds :
       inv[u].parent # NoParent =>
         inv[u].parent \in UnitIds /\ inv[inv[u].parent].status = "CONSUMED"
  /\ (call.op = "cut" /\ call.ok) =>
       /\ inv[call.id].status = "CONSUMED"
       /\ ~MatchesWhole(call.a.cutWidth, call.a.cutHeight, inv[call.id]) =>
            Cardinality(ChildrenOf(call.id)) = RemnantsAsked
  /\ (call.op = "ordercut" /\ call.ok) =>
       /\ inv[call.id].status = "CONSUMED"
       /\ \E t \in ChildrenOf(call.id) : inv[t].reserved = One

\* C21 witness: a manual cut and an allocation cut have both left children,
\* the latest one two remnants of a manual cut
C21_Witness ==
  /\ call.op = "cut" /\ call.ok /\ RemnantsAsked = 2
  /\ Cardinality(ChildrenOf(call.id)) = 2
  /\ \E u \in UnitIds : inv[u].parent \notin {NoParent, call.id}

\* a query for source boards has returned
BoardsCall == call.op = "boards"

\* the boards returned, as a set of ids
Returned == { call.a.data[i] : i \in DOMAIN call.a.data }

\* C22 as stated: getAvailableSourceBoards returns exactly the AVAILABLE
\* units of the definition with width >= minWidth and height >= minHeight,
\* each once, and the first board of a non-empty result has the smallest
\* area of the boards returned.
C22_AsStated ==
  BoardsCall =>
    /\ Returned = { u \in UnitIds :
                      /\ inv[u].status = "AVAILABLE"
                      /\ inv[u].def = call.a.request.itemDefinitionId
                      /\ inv[u].width >= call.a.request.minWidth
                      /\ inv[u].height >= call.a.request.minHeight }
    /\ Cardinality(Returned) = Len(call.a.data)
    /\ \A u \in Returned :
         inv[call.a.data[1]].width * inv[call.a.data[1]].height
           <= inv[u].width * inv[u].height

\* C24 as stated: CONSUMED is absorbing: no step deletes a unit or changes
\* the status, the dimensions or the reservedQuantity of a unit that is
\* CONSUMED.
C24_AsStated ==
  [][ /\ Len(inv') >= Len(inv)
      /\ \A u \in UnitIds :
           inv[u].status = "CONSUMED" =>
             /\ inv'[u].status = "CONSUMED"
             /\ inv'[u].width = inv[u].width /\ inv'[u].height = inv[u].height
             /\ inv'[u].reserved = inv[u].reserved ]_vars

\* C25 as stated: a manual cut or an allocation cut succeeds only on a source
\* with reservedQuantity 0, and getAvailableSourceBoards offers no unit with
\* reservedQuantity > 0.
C25_AsStated ==
  [][ /\ (call'.op \in {"cut", "ordercut"} /\ call'.ok) => inv[call'.id].reserved = 0
      /\ call'.op = "boards" =>
           \A i \in DOMAIN call'.a.data : inv[call'.a.data[i]].reserved = 0 ]_vars

\* C27 as stated: every unit a cut creates (the remnants of a manual cut, the
\* target and the offcuts of an allocation cut) has a strictly positive width
\* and a strictly positive height.
C27_AsStated ==
  [][ (call'.op \in {"cut", "ordercut"} /\ call'.ok) =>
        \A u \in CreatedUnits : inv'[u].width > 0 /\ inv'[u].height > 0 ]_vars

\* order o is released right after its own DRAFT -> IN_PROGRESS, and the
\* only reserved units of its groups are those that transition reserved:
\* none of them was reserved before it
ReleasesOwnReservation(o) ==
  /\ Releases(o)
  /\ lastReserve.order = o
  /\ \A u \in UnitIds :
       (inv[u].name \in RequiredNames(o) /\ inv[u].reserved > 0) => u \in lastReserve.units

\* C29: DRAFT -> IN_PROGRESS immediately followed by IN_PROGRESS -> DRAFT or
\* -> CANCELLED of the same order, from a state with no unit of its groups
\* reserved, restores the inventory: the units the first transition reserved
\* are back at reservedQuantity 0 and nothing else differs, for whole and
\* fractional quantities, covered or not.
C29_ReserveReleaseIdentity ==
  [][ \A o \in OrderIds : ReleasesOwnReservation(o) =>
        inv' = [u \in UnitIds |-> IF u \in lastReserve.units
                                  THEN [inv[u] EXCEPT !.reserved = 0] ELSE inv[u]] ]_vars

\* C29 witness: an order with a fractional requirement has been released
\* and has given back a whole and a half reservation; no unit of its groups
\* is reserved
C29_Witness ==
  /\ StatusCall /\ call.ok /\ call.from = "IN_PROGRESS" /\ call.to = "DRAFT"
  /\ orders[call.id].items[1].product = "P2"
  /\ Cardinality(call.touched) >= 2
  /\ \A u \in UnitIds : inv[u].name \in RequiredNames(call.id) => inv[u].reserved = 0

\* order o is DRAFT, has requirements, and the availability check classifies
\* every one of them ready
AllReady(o) ==
  /\ orders[o].status = "DRAFT"
  /\ materialRequirements(inv, orders[o].items) # {}
  /\ \A req \in materialRequirements(inv, orders[o].items) : MaterialStatus(inv, req) = "ready"

\* C28 as stated: when the availability check classifies every requirement
\* of a DRAFT order ready, the DRAFT -> IN_PROGRESS transition that follows
\* writes no under-coverage warning and leaves every required group with at
\* least its required quantity reserved.
C28_AsStated ==
  [][ \A o \in OrderIds :
        (AllReady(o) /\ call'.op = "status" /\ call'.id = o /\ call'.to = "IN_PROGRESS")
        => /\ call'.ok /\ call'.warned = {}
           /\ \A g \in RequiredNames(o) :
                SumReservedIn(inv', { u \in UnitIds : inv[u].name = g }) >= GroupQty(o, g) ]_vars

\* C26 as stated: the status of an existing order changes only in an
\* accepted updateOrderStatus request for that order, along the transition
\* table and together with the side effect of the transition on the stock.
C26_AsStated ==
  [][ \A o \in DOMAIN orders :
        orders'[o].status # orders[o].status =>
          /\ call'.op = "status" /\ call'.id = o /\ call'.ok
          /\ \/ <<orders[o].status, orders'[o].status>> \in AcceptedPairs
             \/ orders'[o].status = "CANCELLED"
          /\ inv' = SideEffect(inv, inventoryRequirements(orders[o].items),
                               orders[o].status, orders'[o].status).units ]_vars

\* the units of the groups order o requires
UnitsRequired(o) == { u \in UnitIds : inv[u].name \in RequiredNames(o) }

\* C23: a release takes the oldest reservations of the group whoever made
\* them.  An order b in production that holds no reservation of its own
\* releases, on IN_PROGRESS -> DRAFT or -> CANCELLED, only reservations that
\* another order made; and an order a in production whose reserved units
\* have all lost their reservation that way completes without consuming
\* any unit.  The execution the claim describes ends in C23_Witness.
C23_ForeignRelease ==
  [][ /\ \A b \in OrderIds :
           (Releases(b) /\ ledger.reserved[b] = {}) =>
             \A u \in UnitIds :
               inv'[u].reserved < inv[u].reserved =>
                 /\ inv'[u].reserved = 0 /\ inv'[u].status = inv[u].status
                 /\ \E a \in OrderIds \ {b} : u \in ledger.reserved[a]
      /\ \A a \in OrderIds :
           ( /\ call'.op = "status" /\ call'.id = a /\ call'.ok
             /\ orders[a].status = "IN_PROGRESS" /\ call'.to = "COMPLETED"
             /\ ledger.reserved[a] # {}
             /\ \A u \in UnitsRequired(a) : inv[u].reserved = 0 )
           => (inv' = inv /\ orders'[a].status = "COMPLETED") ]_vars

\* C23 witness: order a reserved a unit, order b went into production
\* under-covered and was then cancelled or put back to DRAFT, and a has now
\* completed: the unit a reserved is still AVAILABLE with reservedQuantity 0
\* and no unit was consumed
C23_Witness ==
  /\ StatusCall /\ call.ok /\ call.from = "IN_PROGRESS" /\ call.to = "COMPLETED"
  /\ orders[call.id].status = "COMPLETED"
  /\ call.touched = {}
  /\ ledger.reserved[call.id] # {}
  /\ \A u \in ledger.reserved[call.id] : inv[u].status = "AVAILABLE" /\ inv[u].reserved = 0
  /\ \A u \in UnitIds : inv[u].status # "CONSUMED"
  /\ \E b \in OrderIds \ {call.id} :
       /\ orders[b].status \in {"DRAFT", "CANCELLED"}
       /\ ledger.reserved[b] = {}
       /\ RequiredNames(b) \cap RequiredNames(call.id) # {}

\* C30 as stated: over the lifetime of an order with unchanged lines, its
\* transitions turn CONSUMED at most ceil(requiredQty) units of each group
\* it requires, whatever accepted transitions are taken, reopening and
\* completing again included.
C30_AsStated ==
  \A o \in OrderIds : \A g \in RequiredNames(o) :
    Cardinality({ u \in ledger.consumed[o] : inv[u].name = g }) <= Ceil(GroupQty(o, g))

====
